---- MODULE Spec2Model ----
(***************************************************************************)
(* A model of prezzemolo's Graph (src/src/prezzemolo/graph.py): the vertex *)
(* index with its lazy validation, the breadth-first and Dijkstra searches *)
(* and the path extraction built on them.  The Vertex class lives outside  *)
(* graph.py; its neighbor table is modelled from the specification.        *)
(*                                                                         *)
(* A vertex is identified by its name (equality and hash are by name), and *)
(* the model keeps one Vertex object per name.  Edge weights are natural   *)
(* numbers, whose sums floats represent exactly.                           *)
(***************************************************************************)
EXTENDS Integers, Sequences, FiniteSets, TLC

\* ------------------------------------------------------------------ bounds
NumVertexes == 3
MaxWeight == 1
MaxEdges == 2
MaxSearchEdges == 3

\* --------------------------------------------------------------- constants
None == "None"
Infinity == -1
Names == <<"A", "B", "C", "D", "E">>
Objects == {Names[i] : i \in 1..NumVertexes}
Weights == 0..MaxWeight

BoolOps == {"breadth_first_search", "dijkstra_search"}
PathOps == {"find_shortest_path", "find_weighted_shortest_path"}
InnerOps == {"_breadth_first_search", "_dijkstra_search"}
BfsOps == {"breadth_first_search", "find_shortest_path", "_breadth_first_search"}
DijkstraOps == {"dijkstra_search", "find_weighted_shortest_path", "_dijkstra_search"}

VARIABLES
    neighbors,           \* Vertex.neighbors / get_weight: name -> ordered <<neighbor, weight>> entries
    vertexes,            \* Graph.__vertexes (its keys)
    non_validated,       \* Graph.__non_validated_vertexes
    late_edge,           \* history: add_neighbor was applied to a vertex already in the graph
    pc,                  \* "new" | "idle" | "bfs" | "dijkstra" | "searched" | "extract" | "extracted" | "done"
    op,                  \* the method that was called
    start, end, reverse, \* its arguments
    queue, marked_set,   \* locals of _breadth_first_search
    vertex,              \* the vertex _breadth_first_search dequeued last
    vertex_2_parent,     \* the parent dictionary (empty and unused when the caller passes None)
    distance, remaining_vertexes, visited,   \* locals of _dijkstra_search
    current_vertex,      \* local of _dijkstra_search and of _extract_path_from_parent_dictionary
    result,              \* local of _extract_path_from_parent_dictionary
    search,              \* outcome of the inner search: "none" | "running" | "True" | "False" | "ValueError" | "KeyError"
    returned,            \* what the public method handed back
    appended,            \* history: every queue.append of the running breadth-first search, in order
    finalized,           \* history: every visited.add of the running Dijkstra search, in order
    skipped,             \* history: the vertexes whose stale entries the running Dijkstra search skipped
    lazy_validated       \* history: vertexes the running search took out of non_validated

graphVars == <<vertexes, non_validated>>
callVars == <<op, start, end, reverse>>
bfsVars == <<queue, marked_set, vertex, appended, lazy_validated>>
dijkstraVars == <<distance, remaining_vertexes, visited, finalized, skipped>>
extractVars == <<result>>
vars == <<neighbors, vertexes, non_validated, late_edge, pc, op, start, end, reverse,
          queue, marked_set, vertex, vertex_2_parent, distance, remaining_vertexes,
          visited, current_vertex, result, search, returned, appended, finalized,
          skipped, lazy_validated>>

\* ------------------------------------------------------------------ helpers
Range(s) == {s[i] : i \in 1..Len(s)}

RECURSIVE Reverse(_)
Reverse(s) == IF s = <<>> THEN <<>> ELSE Append(Reverse(Tail(s)), Head(s))

\* ------------------------------------------------------------------- Vertex
\* Vertex.neighbors: the neighbors in insertion order.
NeighborsOf(v) == [i \in 1..Len(neighbors[v]) |-> neighbors[v][i][1]]

NeighborSet(v) == Range(NeighborsOf(v))

\* Vertex.get_weight(neighbor), for a recorded neighbor.
GetWeight(v, n) == neighbors[v][CHOOSE i \in 1..Len(neighbors[v]) : neighbors[v][i][1] = n][2]

\* Vertex.add_neighbor: append, or update the weight of a neighbor already there.
UpsertNeighbor(list, n, w) ==
    IF \E i \in 1..Len(list) : list[i][1] = n
    THEN [i \in 1..Len(list) |-> IF list[i][1] = n THEN <<n, w>> ELSE list[i]]
    ELSE Append(list, <<n, w>>)

EdgeCount == LET RECURSIVE Sum(_)
                 Sum(S) == IF S = {} THEN 0
                           ELSE LET v == CHOOSE x \in S : TRUE
                                IN Len(neighbors[v]) + Sum(S \ {v})
             IN Sum(DOMAIN neighbors)

\* -------------------------------------------------------------------- Graph
\* Mutant of ValidateVertex: the vertex is marked validated whatever its neighbors.
ValidateVertexUnchecked(v, vs, nv) == [ok |-> TRUE, non_validated |-> nv \ {v}]

\* Graph._validate_vertex on index vs and non-validated set nv.
ValidateVertex(v, vs, nv) ==
    IF v \notin nv THEN [ok |-> TRUE, non_validated |-> nv]
    ELSE IF \E n \in NeighborSet(v) : n \notin vs
         THEN [ok |-> FALSE, non_validated |-> nv]
         ELSE [ok |-> TRUE, non_validated |-> nv \ {v}]

\* The loop of Graph.__init__: validate every vertex of the index.
RECURSIVE ValidateAll(_, _, _)
ValidateAll(todo, vs, nv) ==
    IF todo = {} THEN nv
    ELSE LET v == CHOOSE x \in todo : TRUE
         IN ValidateAll(todo \ {v}, vs, ValidateVertex(v, vs, nv).non_validated)

\* Graph.__init__(vertexes): the index and the non-validated set it leaves.
GraphNew(list) == [vertexes |-> list, non_validated |-> ValidateAll(list, list, list)]

\* Mutant of AddVertexTo: a vertex already in the index is marked again but
\* not validated again.
AddVertexToSkipKnown(v, vs, nv) ==
    IF v \in vs THEN [vertexes |-> vs, non_validated |-> nv \cup {v}]
    ELSE [vertexes |-> vs \cup {v},
          non_validated |-> ValidateVertex(v, vs \cup {v}, nv \cup {v}).non_validated]

\* Mutant of AddVertexTo: every waiting vertex is validated again, not only v.
AddVertexToValidateAll(v, vs, nv) ==
    [vertexes |-> vs \cup {v},
     non_validated |-> ValidateAll(nv \cup {v}, vs \cup {v}, nv \cup {v})]

\* Graph.add_vertex(v) on index vs and non-validated set nv.
AddVertexTo(v, vs, nv) ==
    LET vs1 == vs \cup {v}
        nv1 == nv \cup {v}
    IN [vertexes |-> vs1, non_validated |-> ValidateVertex(v, vs1, nv1).non_validated]

\* ---------------------------------------------------- _breadth_first_search
Tracks(o) == o \in PathOps

\* Mutant of BfsExpand: the parent is recorded for every neighbor, marked or not.
RECURSIVE BfsExpandOverwrite(_, _, _, _, _, _, _, _, _)
BfsExpandOverwrite(ns, i, v, q, m, p, log, e, track) ==
    IF i > Len(ns) THEN [queue |-> q, marked_set |-> m, vertex_2_parent |-> p,
                         appended |-> log, found |-> FALSE]
    ELSE LET n == ns[i]
             new == n \notin m
             q1 == IF new THEN Append(q, n) ELSE q
             m1 == IF new THEN m \cup {n} ELSE m
             p1 == IF track THEN (n :> v) @@ p ELSE p
             log1 == IF new THEN Append(log, n) ELSE log
         IN IF n = e
            THEN [queue |-> q1, marked_set |-> m1, vertex_2_parent |-> p1,
                  appended |-> log1, found |-> TRUE]
            ELSE BfsExpandOverwrite(ns, i + 1, v, q1, m1, p1, log1, e, track)

\* The for loop over vertex.neighbors (lines 98-105), from the i-th neighbor on.
RECURSIVE BfsExpand(_, _, _, _, _, _, _, _, _)
BfsExpand(ns, i, v, q, m, p, log, e, track) ==
    IF i > Len(ns) THEN [queue |-> q, marked_set |-> m, vertex_2_parent |-> p,
                         appended |-> log, found |-> FALSE]
    ELSE LET n == ns[i]
             new == n \notin m
             q1 == IF new THEN Append(q, n) ELSE q
             m1 == IF new THEN m \cup {n} ELSE m
             p1 == IF new /\ track THEN (n :> v) @@ p ELSE p
             log1 == IF new THEN Append(log, n) ELSE log
         IN IF n = e
            THEN [queue |-> q1, marked_set |-> m1, vertex_2_parent |-> p1,
                  appended |-> log1, found |-> TRUE]
            ELSE BfsExpand(ns, i + 1, v, q1, m1, p1, log1, e, track)

\* Mutant of BfsIteration: the search stops when it dequeues end, not when it
\* discovers end among the neighbors of a dequeued vertex.
BfsIterationStopAtDequeue(s, e, track, vs) ==
    IF s.queue = <<>> THEN [s EXCEPT !.search = "False"]
    ELSE LET v == Head(s.queue)
             check == v \in s.non_validated
             val == ValidateVertex(v, vs, s.non_validated)
         IN IF check /\ ~val.ok
            THEN [s EXCEPT !.queue = Tail(s.queue), !.vertex = v, !.search = "ValueError"]
            ELSE LET r == BfsExpand(NeighborsOf(v), 1, v, Tail(s.queue), s.marked_set,
                                    s.vertex_2_parent, s.appended, None, track)
                 IN [queue |-> r.queue, marked_set |-> r.marked_set,
                     vertex_2_parent |-> r.vertex_2_parent, appended |-> r.appended,
                     vertex |-> v,
                     non_validated |-> val.non_validated,
                     lazy_validated |-> IF check THEN s.lazy_validated \cup {v}
                                        ELSE s.lazy_validated,
                     search |-> IF v = e THEN "True" ELSE "running"]

\* One pass of the while loop (lines 94-107) on the locals s and the index vs.
BfsIteration(s, e, track, vs) ==
    IF s.queue = <<>> THEN [s EXCEPT !.search = "False"]
    ELSE LET v == Head(s.queue)
             check == v \in s.non_validated
             val == ValidateVertex(v, vs, s.non_validated)
         IN IF check /\ ~val.ok
            THEN [s EXCEPT !.queue = Tail(s.queue), !.vertex = v, !.search = "ValueError"]
            ELSE LET r == BfsExpand(NeighborsOf(v), 1, v, Tail(s.queue), s.marked_set,
                                    s.vertex_2_parent, s.appended, e, track)
                 IN [queue |-> r.queue, marked_set |-> r.marked_set,
                     vertex_2_parent |-> r.vertex_2_parent, appended |-> r.appended,
                     vertex |-> v,
                     non_validated |-> val.non_validated,
                     lazy_validated |-> IF check THEN s.lazy_validated \cup {v}
                                        ELSE s.lazy_validated,
                     search |-> IF r.found THEN "True" ELSE "running"]

\* _breadth_first_search from the locals s until it returns or raises.
RECURSIVE RunBfs(_, _, _, _)
RunBfs(s, e, track, vs) ==
    IF s.search # "running" THEN s ELSE RunBfs(BfsIteration(s, e, track, vs), e, track, vs)

\* Mutant of BfsEntry: the call puts start back among the non-validated vertexes.
BfsEntryMarksStart(a, track, nv) ==
    [queue |-> <<a>>, marked_set |-> {a},
     vertex_2_parent |-> IF track THEN (a :> None) ELSE <<>>,
     appended |-> <<a>>, vertex |-> None, non_validated |-> nv \cup {a},
     lazy_validated |-> {}, search |-> "running"]

\* The locals after lines 87-92.
BfsEntry(a, track, nv) ==
    [queue |-> <<a>>, marked_set |-> {a},
     vertex_2_parent |-> IF track THEN (a :> None) ELSE <<>>,
     appended |-> <<a>>, vertex |-> None, non_validated |-> nv,
     lazy_validated |-> {}, search |-> "running"]

BfsLocals == [queue |-> queue, marked_set |-> marked_set, vertex_2_parent |-> vertex_2_parent,
              appended |-> appended, vertex |-> vertex, non_validated |-> non_validated,
              lazy_validated |-> lazy_validated, search |-> search]

SetBfsLocals(s) ==
    /\ queue' = s.queue
    /\ marked_set' = s.marked_set
    /\ vertex_2_parent' = s.vertex_2_parent
    /\ appended' = s.appended
    /\ vertex' = s.vertex
    /\ non_validated' = s.non_validated
    /\ lazy_validated' = s.lazy_validated
    /\ search' = s.search

\* -------------------------------------------------------- _dijkstra_search
\* Mutant of LessThan: float("inf") compared as an ordinary number.
LessThanNaive(x, y) == x < y

\* Mutant of LessThan: an equal distance counts as an improvement.
LessThanOrEqual(x, y) == x # Infinity /\ (y = Infinity \/ x <= y)

\* x < y on floats, float("inf") included.
LessThan(x, y) == x # Infinity /\ (y = Infinity \/ x < y)

\* Mutant of MinEntries: the queue hands out any entry (a plain queue, no priority).
MinEntriesAnyOrder(rem) == rem

\* The entries PriorityQueue.get may hand out: those of least distance (the
\* order among equal distances is the heap's, which the model leaves open).
MinEntries(rem) == {x \in rem : \A y \in rem : x[1] <= y[1]}

\* The for loop over current_vertex.neighbors (lines 132-138), from the i-th on.
RECURSIVE DijkstraRelax(_, _, _, _, _, _, _, _)
DijkstraRelax(ns, i, cv, cd, dist, rem, p, track) ==
    IF i > Len(ns) THEN [distance |-> dist, remaining_vertexes |-> rem,
                         vertex_2_parent |-> p, error |-> FALSE]
    ELSE LET n == ns[i]
             neighbor_distance == cd + GetWeight(cv, n)
         IN IF n \notin DOMAIN dist
            THEN [distance |-> dist, remaining_vertexes |-> rem,
                  vertex_2_parent |-> p, error |-> TRUE]
            ELSE IF LessThan(neighbor_distance, dist[n])
                 THEN DijkstraRelax(ns, i + 1, cv, cd,
                                    [dist EXCEPT ![n] = neighbor_distance],
                                    rem \cup {<<neighbor_distance, n>>},
                                    IF track THEN (n :> cv) @@ p ELSE p, track)
                 ELSE DijkstraRelax(ns, i + 1, cv, cd, dist, rem, p, track)

\* Mutant of IsStale: no popped entry is skipped.
IsStaleNever(cv, vis) == FALSE

\* Line 127: a popped entry of a vertex already in visited is skipped.
IsStale(cv, vis) == cv \in vis

\* Mutant of DijkstraIteration: the end check comes before the relaxation's
\* outcome is looked at.
DijkstraIterationEndCheckFirst(s, x, e, track) ==
    LET current_distance == x[1]
        cv == x[2]
        rem == s.remaining_vertexes \ {x}
    IN IF IsStale(cv, s.visited)
       THEN [s EXCEPT !.remaining_vertexes = rem, !.current_vertex = cv,
                      !.skipped = Append(s.skipped, cv)]
       ELSE LET r == DijkstraRelax(NeighborsOf(cv), 1, cv, current_distance,
                                   s.distance, rem, s.vertex_2_parent, track)
            IN [distance |-> r.distance, remaining_vertexes |-> r.remaining_vertexes,
                vertex_2_parent |-> r.vertex_2_parent,
                visited |-> s.visited \cup {cv},
                finalized |-> Append(s.finalized, cv),
                skipped |-> s.skipped,
                current_vertex |-> cv,
                search |-> IF cv = e THEN "True"
                           ELSE IF r.error THEN "KeyError" ELSE "running"]

\* One pass of the while loop (lines 122-143) that pops entry x.
DijkstraIteration(s, x, e, track) ==
    LET current_distance == x[1]
        cv == x[2]
        rem == s.remaining_vertexes \ {x}
    IN IF IsStale(cv, s.visited)
       THEN [s EXCEPT !.remaining_vertexes = rem, !.current_vertex = cv,
                      !.skipped = Append(s.skipped, cv)]
       ELSE LET r == DijkstraRelax(NeighborsOf(cv), 1, cv, current_distance,
                                   s.distance, rem, s.vertex_2_parent, track)
            IN [distance |-> r.distance, remaining_vertexes |-> r.remaining_vertexes,
                vertex_2_parent |-> r.vertex_2_parent,
                visited |-> s.visited \cup {cv},
                finalized |-> Append(s.finalized, cv),
                skipped |-> s.skipped,
                current_vertex |-> cv,
                search |-> IF r.error THEN "KeyError"
                           ELSE IF cv = e THEN "True" ELSE "running"]

\* _dijkstra_search from the locals s until it returns or raises: the
\* outcomes it can have, one for each order among entries of equal distance.
RECURSIVE RunDijkstra(_, _, _)
RunDijkstra(s, e, track) ==
    IF s.search # "running" THEN {s.search}
    ELSE IF s.remaining_vertexes = {} THEN {"False"}
    ELSE UNION {RunDijkstra(DijkstraIteration(s, x, e, track), e, track) :
                    x \in MinEntries(s.remaining_vertexes)}

\* The locals after lines 116-120 (and line 161 for the parent dictionary).
DijkstraEntry(a, track, vs) ==
    [distance |-> (a :> 0) @@ [v \in vs |-> Infinity],
     remaining_vertexes |-> {<<0, a>>},
     vertex_2_parent |-> IF track THEN [v \in vs |-> None] ELSE <<>>,
     visited |-> {}, finalized |-> <<>>, skipped |-> <<>>, current_vertex |-> None,
     search |-> "running"]

DijkstraLocals == [distance |-> distance, remaining_vertexes |-> remaining_vertexes,
                   vertex_2_parent |-> vertex_2_parent, visited |-> visited,
                   finalized |-> finalized, skipped |-> skipped,
                   current_vertex |-> current_vertex,
                   search |-> search]

SetDijkstraLocals(s) ==
    /\ distance' = s.distance
    /\ remaining_vertexes' = s.remaining_vertexes
    /\ vertex_2_parent' = s.vertex_2_parent
    /\ visited' = s.visited
    /\ finalized' = s.finalized
    /\ skipped' = s.skipped
    /\ current_vertex' = s.current_vertex
    /\ search' = s.search

\* ------------------------------------------------------------- path methods
\* Mutant of PathResult: the flag read the other way round.
PathResultFlagInverted(list, rev) == IF rev THEN Reverse(list) ELSE list

\* Mutant of PathResult: the flag ignored.
PathResultFlagIgnored(list, rev) == list

\* Lines 154-156 and 164-166: the iterator handed back for the extracted list.
PathResult(list, rev) == IF ~rev THEN Reverse(list) ELSE list

NoReturn == [kind |-> "none", path |-> <<>>]

\* ------------------------------------------------------------------ actions
NoCall ==
    /\ op = "none" /\ start = None /\ end = None /\ reverse = TRUE
    /\ queue = <<>> /\ marked_set = {} /\ vertex = None /\ vertex_2_parent = <<>>
    /\ distance = <<>> /\ remaining_vertexes = {} /\ visited = {}
    /\ current_vertex = None /\ result = <<>> /\ search = "none"
    /\ returned = NoReturn /\ appended = <<>> /\ finalized = <<>> /\ skipped = <<>>
    /\ lazy_validated = {}

\* The caller has built its Vertex objects; no Graph exists yet.
Init ==
    /\ neighbors = [v \in Objects |-> <<>>]
    /\ vertexes = {} /\ non_validated = {} /\ late_edge = FALSE
    /\ pc = "new"
    /\ NoCall

\* Vertex.add_neighbor(n, w) on vertex v, before or after v joined the graph.
AddNeighbor(v, n, w) ==
    /\ pc \in {"new", "idle"}
    /\ neighbors' = [neighbors EXCEPT ![v] = UpsertNeighbor(@, n, w)]
    /\ late_edge' = (late_edge \/ (pc = "idle" /\ v \in vertexes))
    /\ UNCHANGED <<graphVars, pc, callVars, bfsVars, dijkstraVars, vertex_2_parent,
                   current_vertex, result, search, returned>>

\* Graph(list).
GraphInit(list) ==
    /\ pc = "new"
    /\ vertexes' = GraphNew(list).vertexes
    /\ non_validated' = GraphNew(list).non_validated
    /\ pc' = "idle"
    /\ UNCHANGED <<neighbors, late_edge, callVars, bfsVars, dijkstraVars, vertex_2_parent,
                   current_vertex, result, search, returned>>

\* Graph.add_vertex(v).
AddVertex(v) ==
    /\ pc = "idle"
    /\ vertexes' = AddVertexTo(v, vertexes, non_validated).vertexes
    /\ non_validated' = AddVertexTo(v, vertexes, non_validated).non_validated
    /\ UNCHANGED <<neighbors, late_edge, pc, callVars, bfsVars, dijkstraVars,
                   vertex_2_parent, current_vertex, result, search, returned>>

\* A call of a breadth-first method: lines 87-92 (and 151).
CallBfs(o, a, b, rev) ==
    /\ pc = "idle"
    /\ o \in BfsOps
    /\ op' = o /\ start' = a /\ end' = b /\ reverse' = rev
    /\ SetBfsLocals(BfsEntry(a, Tracks(o), non_validated))
    /\ pc' = "bfs"
    /\ UNCHANGED <<neighbors, vertexes, late_edge, dijkstraVars, current_vertex,
                   result, returned>>

\* One pass of the while loop of _breadth_first_search.
BfsLoop ==
    /\ pc = "bfs"
    /\ SetBfsLocals(BfsIteration(BfsLocals, end, Tracks(op), vertexes))
    /\ pc' = IF search' = "running" THEN "bfs" ELSE "searched"
    /\ UNCHANGED <<neighbors, vertexes, late_edge, callVars, dijkstraVars,
                   current_vertex, result, returned>>

\* A call of a Dijkstra method: lines 116-120 (and 161).
CallDijkstra(o, a, b, rev) ==
    /\ pc = "idle"
    /\ o \in DijkstraOps
    /\ op' = o /\ start' = a /\ end' = b /\ reverse' = rev
    /\ SetDijkstraLocals(DijkstraEntry(a, Tracks(o), vertexes))
    /\ pc' = "dijkstra"
    /\ UNCHANGED <<neighbors, graphVars, late_edge, bfsVars, result, returned>>

\* One pass of the while loop of _dijkstra_search.
DijkstraLoop ==
    /\ pc = "dijkstra"
    /\ IF remaining_vertexes = {}
       THEN SetDijkstraLocals([DijkstraLocals EXCEPT !.search = "False"])
       ELSE \E x \in MinEntries(remaining_vertexes) :
                SetDijkstraLocals(DijkstraIteration(DijkstraLocals, x, end, Tracks(op)))
    /\ pc' = IF search' = "running" THEN "dijkstra" ELSE "searched"
    /\ UNCHANGED <<neighbors, graphVars, late_edge, callVars, bfsVars, result, returned>>

\* The search has returned or raised: the public method takes over
\* (lines 111, 147, 152-153 and 157, 162-163 and 167).
SearchReturn ==
    /\ pc = "searched"
    /\ IF op \in PathOps /\ search = "True"
       THEN /\ pc' = "extract"
            /\ result' = <<>>
            /\ current_vertex' = end
            /\ returned' = returned
       ELSE /\ pc' = "done"
            /\ returned' = [kind |-> IF op \in PathOps /\ search = "False"
                                     THEN "None" ELSE search,
                            path |-> <<>>]
            /\ UNCHANGED <<result, current_vertex>>
    /\ UNCHANGED <<neighbors, graphVars, late_edge, callVars, bfsVars, dijkstraVars,
                   vertex_2_parent, search>>

\* One pass of the while loop of _extract_path_from_parent_dictionary (lines 76-79).
ExtractLoop ==
    /\ pc = "extract"
    /\ IF current_vertex # None
       THEN /\ result' = Append(result, current_vertex)
            /\ IF current_vertex \in DOMAIN vertex_2_parent
               THEN /\ current_vertex' = vertex_2_parent[current_vertex]
                    /\ pc' = "extract"
                    /\ returned' = returned
               ELSE /\ current_vertex' = current_vertex
                    /\ pc' = "done"
                    /\ returned' = [kind |-> "KeyError", path |-> <<>>]
       ELSE /\ pc' = "extracted"
            /\ UNCHANGED <<result, current_vertex, returned>>
    /\ UNCHANGED <<neighbors, graphVars, late_edge, callVars, bfsVars, dijkstraVars,
                   vertex_2_parent, search>>

\* Lines 154-156 and 164-166.
PathReturn ==
    /\ pc = "extracted"
    /\ returned' = [kind |-> "path", path |-> PathResult(result, reverse)]
    /\ pc' = "done"
    /\ UNCHANGED <<neighbors, graphVars, late_edge, callVars, bfsVars, dijkstraVars,
                   vertex_2_parent, current_vertex, result, search>>

\* The caller has its answer; the locals of the call are gone.
Finish ==
    /\ pc = "done"
    /\ pc' = "idle"
    /\ op' = "none" /\ start' = None /\ end' = None /\ reverse' = TRUE
    /\ queue' = <<>> /\ marked_set' = {} /\ vertex' = None /\ vertex_2_parent' = <<>>
    /\ distance' = <<>> /\ remaining_vertexes' = {} /\ visited' = {}
    /\ current_vertex' = None /\ result' = <<>> /\ search' = "none"
    /\ returned' = NoReturn /\ appended' = <<>> /\ finalized' = <<>> /\ skipped' = <<>>
    /\ lazy_validated' = {}
    /\ UNCHANGED <<neighbors, graphVars, late_edge>>

\* The model stops adding edges at max of them; a weight can always be updated.
MayWire(v, n, max) == n \in NeighborSet(v) \/ EdgeCount < max

Mutate ==
    \/ \E v \in DOMAIN neighbors, n \in DOMAIN neighbors, w \in Weights :
           MayWire(v, n, MaxEdges) /\ AddNeighbor(v, n, w)
    \/ \E list \in SUBSET DOMAIN neighbors : GraphInit(list)
    \/ \E v \in DOMAIN neighbors : AddVertex(v)

Call ==
    \/ \E a \in DOMAIN neighbors, b \in DOMAIN neighbors :
           \/ CallBfs("breadth_first_search", a, b, TRUE)
           \/ CallDijkstra("dijkstra_search", a, b, TRUE)
           \/ \E rev \in BOOLEAN :
                  \/ CallBfs("find_shortest_path", a, b, rev)
                  \/ CallDijkstra("find_weighted_shortest_path", a, b, rev)
    \/ \E a \in DOMAIN neighbors :
           \/ CallBfs("_breadth_first_search", a, None, TRUE)
           \/ CallDijkstra("_dijkstra_search", a, None, TRUE)

Run == BfsLoop \/ DijkstraLoop \/ SearchReturn \/ ExtractLoop \/ PathReturn \/ Finish

Next == Mutate \/ Call \/ Run

Spec == Init /\ [][Next]_vars

\* breadth_first_search(a, b) and dijkstra_search(a, b) on the graph g as whole calls.
BfsOutcome(a, b, g) ==
    RunBfs(BfsEntry(a, FALSE, g.non_validated), b, FALSE, g.vertexes).search

DijkstraOutcomes(a, b, g) == RunDijkstra(DijkstraEntry(a, FALSE, g.vertexes), b, FALSE)

\* ------------------------------------------------ searches on a built graph
\* The scenario of the specification: A->B (1), A->C (4), B->D (1), C->D (1).
Scenario ==
    ("A" :> << <<"B", 1>>, <<"C", 4>> >>) @@ ("B" :> << <<"D", 1>> >>)
        @@ ("C" :> << <<"D", 1>> >>) @@ ("D" :> <<>>)

\* Either fresh vertexes still to be wired, or the scenario wired and its
\* Graph built from all four vertexes.
InitSearch ==
    /\ \/ /\ neighbors = [v \in Objects |-> <<>>]
          /\ pc = "new"
          /\ vertexes = {} /\ non_validated = {}
       \/ /\ neighbors = Scenario
          /\ pc = "idle"
          /\ vertexes = GraphNew(DOMAIN neighbors).vertexes
          /\ non_validated = GraphNew(DOMAIN neighbors).non_validated
    /\ late_edge = FALSE
    /\ NoCall

\* Every vertex is wired first, then Graph(all of them) is built.
Build ==
    \/ \E v \in DOMAIN neighbors, n \in DOMAIN neighbors, w \in Weights :
           pc = "new" /\ MayWire(v, n, MaxSearchEdges) /\ AddNeighbor(v, n, w)
    \/ GraphInit(DOMAIN neighbors)

NextSearch == Build \/ Call \/ Run

SpecSearch == InitSearch /\ [][NextSearch]_vars

\* The two inner searches called directly, with every end and with no end.
CallInner ==
    \E a \in DOMAIN neighbors, b \in DOMAIN neighbors \cup {None} :
        \/ CallBfs("_breadth_first_search", a, b, TRUE)
        \/ CallDijkstra("_dijkstra_search", a, b, TRUE)

NextLoops == Build \/ CallInner \/ BfsLoop \/ DijkstraLoop \/ SearchReturn \/ Finish

\* The calls are synchronous: a search loop that can take a pass takes it.
SpecLoopsFair ==
    InitSearch /\ [][NextLoops]_vars /\ WF_vars(BfsLoop) /\ WF_vars(DijkstraLoop)

\* =================================================================== claims
\* Reference notions, defined on the graph alone and not on any search.
RECURSIVE Closure(_)
Closure(S) ==
    LET T == S \cup UNION {NeighborSet(v) : v \in S}
    IN IF T = S THEN S ELSE Closure(T)

\* b is reachable from a by a directed path of zero or more edges.
Reachable(a, b) == b \in Closure({a})

\* p is a directed path from a to b.
IsPathFromTo(p, a, b) ==
    /\ p # <<>> /\ p[1] = a /\ p[Len(p)] = b
    /\ \A i \in 1..(Len(p) - 1) : p[i + 1] \in NeighborSet(p[i])

\* The simple directed paths from a to b.
SimplePaths(a, b) ==
    {p \in UNION {[1..n -> DOMAIN neighbors] : n \in 1..Cardinality(DOMAIN neighbors)} :
        /\ IsPathFromTo(p, a, b)
        /\ \A i \in 1..Len(p), j \in 1..Len(p) : i < j => p[i] # p[j]}

RECURSIVE PathWeight(_)
PathWeight(p) ==
    IF Len(p) < 2 THEN 0 ELSE GetWeight(p[1], p[2]) + PathWeight(Tail(p))

MinOf(S) == CHOOSE x \in S : \A y \in S : x <= y

MinHops(a, b) == MinOf({Len(p) - 1 : p \in SimplePaths(a, b)})

MinWeight(a, b) == MinOf({PathWeight(p) : p \in SimplePaths(a, b)})

\* p, read in one of its two directions, is a directed path from a to b.
Directions(p) == {p, Reverse(p)}

\* Every vertex of the graph has all its neighbors in the graph, and the
\* query is between two vertexes of the graph.
FullyRegistered == \A v \in vertexes : NeighborSet(v) \subseteq vertexes

QueryInGraph == start \in vertexes /\ end \in vertexes

\* C1: on a fully registered graph breadth_first_search(a, b) is true exactly
\* when b is reachable from a, the empty path counting for a = b.
C1_BfsIffReachable ==
    (pc = "done" /\ op = "breadth_first_search" /\ FullyRegistered /\ QueryInGraph)
        => /\ returned.kind \in {"True", "False"}
           /\ (returned.kind = "True") <=> Reachable(start, end)

\* C2: on a fully registered graph find_shortest_path(a, b) returns a directed
\* path between a and b with the fewest edges when b is reachable from a (the
\* empty path counting for a = b), and None when it is not.
C2_ShortestPath ==
    (pc = "done" /\ op = "find_shortest_path" /\ FullyRegistered /\ QueryInGraph)
        => IF Reachable(start, end)
           THEN /\ returned.kind = "path"
                /\ \E q \in Directions(returned.path) : IsPathFromTo(q, start, end)
                /\ Len(returned.path) - 1 = MinHops(start, end)
           ELSE returned.kind = "None"

\* C3: on a fully registered graph with non-negative weights, when the
\* Dijkstra search of find_weighted_shortest_path(a, b) succeeds, the returned
\* sequence is a directed path between a and b whose summed weight is the
\* least over all directed paths from a to b.
C3_WeightedShortestPath ==
    (pc = "done" /\ op = "find_weighted_shortest_path" /\ search = "True"
        /\ FullyRegistered /\ QueryInGraph)
        => /\ returned.kind = "path"
           /\ \E q \in Directions(returned.path) :
                  /\ IsPathFromTo(q, start, end)
                  /\ PathWeight(q) = MinWeight(start, end)

\* C3 witness: the search stopped with entries left in the queue and returned
\* a lightest path that has more edges than the path of fewest edges.
C3_Witness ==
    /\ pc = "done" /\ op = "find_weighted_shortest_path" /\ search = "True"
    /\ FullyRegistered /\ QueryInGraph
    /\ returned.kind = "path"
    /\ remaining_vertexes # {}
    /\ Len(returned.path) - 1 > MinHops(start, end)
    /\ \E x \in 1..Len(neighbors[start]) : neighbors[start][x][2] = 0

IsScenario == neighbors = Scenario

C5_FlagsAreReverses ==
    /\ pc = "extracted"
         => PathResult(result, TRUE) = Reverse(PathResult(result, FALSE))
    /\ (pc = "done" /\ returned.kind = "path")
         => /\ returned.path = PathResult(result, reverse)
            /\ returned.path = Reverse(PathResult(result, ~reverse))
    /\ (pc = "done" /\ op \in PathOps /\ search = "False") => returned.kind = "None"
    /\ (pc = "done" /\ op \in PathOps /\ search = "True" /\ FullyRegistered /\ QueryInGraph)
         => returned.kind = "path"

\* C5 witness: a path of three vertexes was returned with reverse = FALSE.
C5_Witness ==
    /\ pc = "done" /\ op \in PathOps /\ ~reverse
    /\ returned.kind = "path" /\ Len(returned.path) = 3
    /\ returned.path # Reverse(returned.path)

\* C6 (as claimed): whenever a breadth-first call dequeues a vertex that has a
\* neighbor outside the index, the call raises the error naming that vertex
\* and expands none of its neighbors.
C6_RaisesOnMissingNeighbor ==
    [][(pc = "bfs" /\ queue # <<>>
          /\ \E n \in NeighborSet(Head(queue)) : n \notin vertexes)
         => (search' = "ValueError" /\ vertex' = Head(queue)
               /\ marked_set' = marked_set /\ queue' = Tail(queue))]_vars

\* C7: add_vertex is idempotent: in every graph state and for every vertex v,
\* add_vertex(v) twice leaves the index and the non-validated set that one
\* add_vertex(v) leaves, and every breadth_first_search and dijkstra_search
\* has the same outcome on both.
C7_AddVertexIdempotent ==
    pc = "idle" =>
        \A v \in DOMAIN neighbors :
            LET once == AddVertexTo(v, vertexes, non_validated)
                twice == AddVertexTo(v, once.vertexes, once.non_validated)
            IN /\ twice.vertexes = once.vertexes
               /\ twice.non_validated = once.non_validated
               /\ \A a \in DOMAIN neighbors, b \in DOMAIN neighbors :
                      /\ BfsOutcome(a, b, twice) = BfsOutcome(a, b, once)
                      /\ DijkstraOutcomes(a, b, twice) = DijkstraOutcomes(a, b, once)

\* C7 witness: a vertex of the index still waits for validation although all its
\* neighbors are in the index by now, so that adding it again changes the graph.
C7_Witness ==
    /\ pc = "idle"
    /\ \E v \in vertexes :
           /\ v \in non_validated /\ NeighborSet(v) # {} /\ NeighborSet(v) \subseteq vertexes
           /\ AddVertexTo(v, vertexes, non_validated).non_validated # non_validated

NoDuplicates(s) == \A i \in 1..Len(s), j \in 1..Len(s) : i < j => s[i] # s[j]

\* Bounded by the vertexes left to mark and the queue length.
BfsVariant == Cardinality(DOMAIN neighbors \ marked_set) + Len(queue)

\* Lexicographic: the vertexes left to finalize, then the entries left to pop.
DijkstraVariant ==
    Cardinality(DOMAIN neighbors \ visited)
        * (Cardinality(DOMAIN neighbors) * Cardinality(DOMAIN neighbors) + 2)
    + Cardinality(remaining_vertexes)

\* C8: on a fully registered graph both searches terminate (no run stays in
\* a search loop for ever, and every pass of a loop returns or decreases a
\* bounded measure), the breadth-first search appends each vertex to its
\* queue at most once, and Dijkstra finalizes each vertex at most once, a
\* popped entry of a finalized vertex being skipped with no relaxation.
C8_SearchesTerminate ==
    /\ [](FullyRegistered => (NoDuplicates(appended) /\ NoDuplicates(finalized)))
    /\ [][(FullyRegistered /\ pc = "bfs")
            => (pc' = "searched" \/ (pc' = "bfs" /\ BfsVariant' < BfsVariant))]_vars
    /\ [][(FullyRegistered /\ pc = "dijkstra")
            => (pc' = "searched"
                  \/ (pc' = "dijkstra" /\ DijkstraVariant' < DijkstraVariant))]_vars
    /\ [][(FullyRegistered /\ pc = "dijkstra" /\ remaining_vertexes # {}
             /\ current_vertex' \in visited)
            => (skipped' = Append(skipped, current_vertex') /\ finalized' = finalized
                  /\ distance' = distance
                  /\ visited' = visited /\ vertex_2_parent' = vertex_2_parent
                  /\ Cardinality(remaining_vertexes') = Cardinality(remaining_vertexes) - 1)]_vars
    /\ []<>(pc \notin {"bfs", "dijkstra"})

\* C8 witness: on a graph with a zero-weight edge a Dijkstra search has just
\* skipped the stale entry of a vertex it finalized earlier.
C8_Witness ==
    /\ pc = "dijkstra" /\ FullyRegistered
    /\ skipped # <<>> /\ skipped[Len(skipped)] = current_vertex
    /\ current_vertex \in Range(finalized)
    /\ \E v \in DOMAIN neighbors : \E i \in 1..Len(neighbors[v]) : neighbors[v][i][2] = 0

\* C9: with no add_neighbor on a vertex already in the graph, every validated
\* vertex of the graph has all its neighbors in the index; _validate_vertex
\* takes a vertex out of the non-validated set only when all its neighbors are
\* in the index, fails and leaves the set alone when one is missing, and
\* succeeds with no effect on a vertex that is not in the set.
C9_ValidationInvariant ==
    /\ [](~late_edge =>
            \A v \in vertexes \ non_validated : NeighborSet(v) \subseteq vertexes)
    /\ [](\A v \in DOMAIN neighbors :
            LET r == ValidateVertex(v, vertexes, non_validated)
            IN /\ v \notin non_validated
                    => (r.ok /\ r.non_validated = non_validated)
               /\ (v \in non_validated /\ ~(NeighborSet(v) \subseteq vertexes))
                    => (~r.ok /\ r.non_validated = non_validated)
               /\ (v \in non_validated /\ NeighborSet(v) \subseteq vertexes)
                    => (r.ok /\ r.non_validated = non_validated \ {v}))
    /\ [][\A v \in non_validated \ non_validated' :
            NeighborSet(v) \subseteq vertexes']_vars

\* C9 witness: with no late add_neighbor, a traversal has validated a vertex
\* while another vertex of the graph still misses a neighbor.
C9_Witness ==
    /\ ~late_edge /\ pc = "done" /\ op \in BfsOps
    /\ lazy_validated # {}
    /\ \E v \in non_validated : ~(NeighborSet(v) \subseteq vertexes)
    /\ \E v \in vertexes \ non_validated : NeighborSet(v) # {}

\* C10: add_vertex(v) validates v alone: every other vertex keeps its place in
\* or out of the non-validated set, also when v was its last missing neighbor.
\* A breadth-first pass that dequeues a non-validated vertex whose neighbors
\* are all in the index validates it and raises nothing; a pass that dequeues
\* a validated vertex skips the check: it neither raises nor touches the set.
C10_LazyRevalidation ==
    /\ [][(pc = "idle" /\ pc' = "idle" /\ neighbors' = neighbors)
            => \E v \in DOMAIN neighbors :
                   /\ vertexes' = vertexes \cup {v}
                   /\ non_validated' \ {v} = non_validated \ {v}]_vars
    /\ [][(pc = "bfs" /\ queue # <<>> /\ Head(queue) \in non_validated
             /\ NeighborSet(Head(queue)) \subseteq vertexes)
            => (non_validated' = non_validated \ {Head(queue)}
                  /\ search' # "ValueError")]_vars
    /\ [][(pc = "bfs" /\ queue # <<>> /\ Head(queue) \notin non_validated)
            => (non_validated' = non_validated /\ search' # "ValueError")]_vars

\* C10 witness: a vertex whose validation failed at insertion (no add_neighbor
\* came after it joined) was validated by the running traversal, and a vertex
\* validated earlier was dequeued after it.
C10_Witness ==
    /\ ~late_edge /\ pc \in {"bfs", "searched"} /\ search # "ValueError"
    /\ lazy_validated # {}
    /\ vertex \notin lazy_validated /\ vertex \in vertexes

\* The place of x in the sequence s.
Pos(s, x) == CHOOSE i \in 1..Len(s) : s[i] = x

\* The vertexes the running breadth-first search has dequeued, which it does
\* in the order it appended them.
Dequeued == Range(appended) \ Range(queue)

\* C11: in find_shortest_path the parent recorded for a vertex is the
\* earliest-dequeued vertex that lists it as a neighbor, it is recorded once,
\* by the pass that dequeued that parent, and never overwritten, start keeping
\* None; in the scenario (A lists B before C, both lead to D) the extracted
\* path from A to D is the one through B.
C11_FirstDiscoveryParent ==
    /\ []((pc \in {"bfs", "searched", "extract", "extracted", "done"}
             /\ op = "find_shortest_path" /\ FullyRegistered /\ QueryInGraph)
           => /\ vertex_2_parent[start] = None
              /\ \A v \in DOMAIN vertex_2_parent \ {start} :
                     LET p == vertex_2_parent[v]
                     IN /\ p \in Dequeued
                        /\ v \in NeighborSet(p)
                        /\ \A u \in Dequeued :
                               v \in NeighborSet(u) => Pos(appended, p) <= Pos(appended, u))
    /\ [][(pc = "bfs" /\ op = "find_shortest_path")
            => /\ \A v \in DOMAIN vertex_2_parent :
                      /\ v \in DOMAIN vertex_2_parent'
                      /\ vertex_2_parent'[v] = vertex_2_parent[v]
               /\ \A v \in DOMAIN vertex_2_parent' \ DOMAIN vertex_2_parent :
                      vertex_2_parent'[v] = Head(queue)]_vars
    /\ []((pc = "done" /\ IsScenario /\ op = "find_shortest_path"
             /\ start = "A" /\ end = "D")
           => (result = <<"D", "B", "A">>
                 /\ returned = [kind |-> "path", path |-> PathResult(result, reverse)]))

\* C11 witness: the scenario's query from A to D, which has two paths of two
\* edges, has returned the one through B.
C11_Witness ==
    /\ pc = "done" /\ IsScenario /\ op = "find_shortest_path"
    /\ start = "A" /\ end = "D" /\ ~reverse
    /\ Cardinality({p \in SimplePaths(start, end) : Len(p) - 1 = MinHops(start, end)}) = 2
    /\ returned.path = <<"A", "B", "D">>

\* A breadth-first method is running or has just run.
InBfsCall == op \in BfsOps /\ pc \in {"bfs", "searched", "extract", "extracted", "done"}

\* The pass that dequeues Head(queue) raises the referential-integrity error.
HeadFailsValidation ==
    Head(queue) \in non_validated /\ ~(NeighborSet(Head(queue)) \subseteq vertexes)

\* C12: _breadth_first_search returns true in the first pass whose dequeued
\* vertex lists end as a neighbor, end being still in the queue or just
\* appended to it; for end different from start, end is never dequeued and
\* never validated by the call, so the error the call may raise never names
\* end, whatever neighbors end misses.  With end = None the search never
\* returns true; it returns false only with its queue empty, which it reaches
\* on every fully registered graph.
C12_StopsAtDiscovery ==
    /\ [][(pc = "bfs" /\ queue # <<>> /\ ~HeadFailsValidation)
            => /\ (search' = "True") <=> (end \in NeighborSet(Head(queue)))
               /\ (search' = "True" /\ end # start)
                    => (queue' # <<>> /\ queue'[Len(queue')] = end
                          /\ appended'[Len(appended')] = end)]_vars
    /\ []((InBfsCall /\ end # start /\ end # None)
           => (vertex # end /\ end \notin Dequeued /\ end \notin lazy_validated))
    /\ [][(pc = "bfs" /\ end # start /\ end \in non_validated)
            => end \in non_validated']_vars
    /\ []((InBfsCall /\ end = None) => search # "True")
    /\ []((InBfsCall /\ search = "False") => queue = <<>>)
    /\ []((InBfsCall /\ end = None /\ pc = "searched" /\ FullyRegistered
             /\ start \in vertexes)
           => (search = "False" /\ marked_set = Closure({start})))

\* C12 witness: with no late add_neighbor, breadth_first_search has returned
\* true for an end vertex of the graph that misses a neighbor and still waits
\* for validation.
C12_Witness ==
    /\ pc = "done" /\ op = "breadth_first_search" /\ returned.kind = "True"
    /\ ~late_edge /\ end # start
    /\ end \in vertexes /\ end \in non_validated
    /\ \E n \in NeighborSet(end) : n \notin vertexes

\* C13: from its call to its return or raise, a Dijkstra method validates
\* nothing, never raises the referential-integrity error and leaves the vertex
\* index and the non-validated set as they were; a breadth-first method never
\* changes the vertex index and only ever takes vertexes out of the
\* non-validated set.
C13_TraversalFrame ==
    /\ [][(op \in DijkstraOps \/ op' \in DijkstraOps)
            => (vertexes' = vertexes /\ non_validated' = non_validated
                  /\ neighbors' = neighbors)]_vars
    /\ [](op \in DijkstraOps
           => (search # "ValueError" /\ returned.kind # "ValueError"
                 /\ lazy_validated = {}))
    /\ [][(op \in BfsOps \/ op' \in BfsOps)
            => (vertexes' = vertexes /\ non_validated' \subseteq non_validated
                  /\ neighbors' = neighbors)]_vars
    /\ []((op \in BfsOps /\ pc = "done")
           => (lazy_validated \cap non_validated = {}
                 /\ (returned.kind = "ValueError" => vertex \in non_validated)))

\* C13 witness: with no late add_neighbor, a Dijkstra search between two
\* vertexes has succeeded after finalizing a vertex with neighbors that still
\* waits for validation.
C13_Witness ==
    /\ pc = "done" /\ op \in DijkstraOps /\ search = "True" /\ ~late_edge
    /\ \E v \in Range(finalized) : v \in non_validated /\ NeighborSet(v) # {}
    /\ start # end

\* The graph as the two sets Graph keeps.
TheGraph == [vertexes |-> vertexes, non_validated |-> non_validated]

\* start lies on a directed cycle of weight zero.
OnZeroWeightCycle(a) ==
    \E n \in NeighborSet(a) : GetWeight(a, n) = 0 /\ Reachable(n, a)

\* C14: on a fully registered graph with non-negative weights, for vertexes
\* a and b of the graph, dijkstra_search(a, b) is true exactly when b is
\* reachable from a by zero or more edges, and find_weighted_shortest_path(a, b)
\* returns None exactly when dijkstra_search(a, b) is false and a path
\* otherwise; dijkstra_search(a, a) is true and the weighted path from a to a
\* is the single vertex a.
C14_DijkstraIffReachable ==
    /\ (pc = "done" /\ op = "dijkstra_search" /\ FullyRegistered /\ QueryInGraph)
         => /\ returned.kind \in {"True", "False"}
            /\ (returned.kind = "True") <=> Reachable(start, end)
            /\ start = end => returned.kind = "True"
    /\ (pc = "done" /\ op = "find_weighted_shortest_path" /\ FullyRegistered
          /\ QueryInGraph)
         => /\ returned.kind \in {"None", "path"}
            /\ (returned.kind = "None") <=> ~Reachable(start, end)
            /\ (returned.kind = "None")
                  <=> (DijkstraOutcomes(start, end, TheGraph) = {"False"})
            /\ (returned.kind = "path")
                  <=> (DijkstraOutcomes(start, end, TheGraph) = {"True"})
            /\ start = end => returned = [kind |-> "path", path |-> <<start>>]
    /\ (pc = "extract" /\ op = "find_weighted_shortest_path" /\ FullyRegistered
          /\ QueryInGraph /\ start = end)
         => Len(result) <= 1

\* C14 witness: find_weighted_shortest_path(a, a) has returned the single
\* vertex a although a lies on a cycle of weight zero.
C14_Witness ==
    /\ pc = "done" /\ op = "find_weighted_shortest_path" /\ FullyRegistered
    /\ QueryInGraph /\ start = end
    /\ OnZeroWeightCycle(start) /\ start \notin NeighborSet(start)
    /\ returned = [kind |-> "path", path |-> <<start>>]

\* The walk of _extract_path_from_parent_dictionary from v on the parent
\* dictionary p, cut after fuel steps: the vertexes it collects, followed by
\* "KeyError" when a lookup fails and by "Loop" when the fuel runs out.
RECURSIVE ParentChain(_, _, _)
ParentChain(p, v, fuel) ==
    IF v = None THEN <<>>
    ELSE IF fuel = 0 THEN <<"Loop">>
    ELSE IF v \notin DOMAIN p THEN <<v, "KeyError">>
    ELSE <<v>> \o ParentChain(p, p[v], fuel - 1)

ChainFromEnd == ParentChain(vertex_2_parent, end, Cardinality(DOMAIN neighbors) + 1)

\* A path method is in its search or past it; for the Dijkstra one, start is
\* in the graph.
TrackedCall ==
    /\ op \in PathOps
    /\ pc \in {"bfs", "dijkstra", "searched", "extract", "extracted", "done"}
    /\ op = "find_weighted_shortest_path" => start \in vertexes

\* C15: in a search run with a parent map (by find_shortest_path, or by
\* find_weighted_shortest_path with non-negative weights and start in the
\* graph), start is mapped to None and never given a parent; once the search
\* has returned true, the parent links from end reach start with no lookup
\* failure and no vertex met twice, so that the extraction ends and its
\* result is a simple path, end first and start last.
C15_ParentMapWellFormed ==
    /\ [](TrackedCall
           => (start \in DOMAIN vertex_2_parent /\ vertex_2_parent[start] = None))
    /\ []((TrackedCall /\ search = "True")
           => /\ Range(ChainFromEnd) \subseteq DOMAIN neighbors
              /\ NoDuplicates(ChainFromEnd)
              /\ ChainFromEnd[1] = end
              /\ ChainFromEnd[Len(ChainFromEnd)] = start
              /\ IsPathFromTo(Reverse(ChainFromEnd), start, end)
              /\ pc = "extract" => (Len(result) <= Len(ChainFromEnd)
                                     /\ result = SubSeq(ChainFromEnd, 1, Len(result)))
              /\ pc \in {"extracted", "done"} => result = ChainFromEnd
              /\ pc = "done" => returned.kind = "path")

\* C15 witness: find_weighted_shortest_path has returned a path of two or more
\* vertexes whose start lies on a cycle of weight zero.
C15_Witness ==
    /\ pc = "done" /\ op = "find_weighted_shortest_path" /\ search = "True"
    /\ start \in vertexes /\ OnZeroWeightCycle(start)
    /\ returned.kind = "path" /\ Len(returned.path) >= 2
    /\ result = ChainFromEnd

\* This step of a Dijkstra search finalizes a vertex (current_vertex').
Finalizes == pc = "dijkstra" /\ finalized' # finalized

\* A Dijkstra search has returned or raised.
DijkstraSearched ==
    op \in DijkstraOps /\ pc \in {"searched", "extract", "extracted", "done"}

\* C16 (as claimed): whenever a Dijkstra search finalizes a vertex that has a
\* neighbor absent from the index, the call fails with the lookup error in
\* that pass, before the end check, also when the vertex is end; a search
\* that finalizes no such vertex returns true or false.
C16_FailsOnDanglingEdge ==
    /\ [][(Finalizes /\ \E n \in NeighborSet(current_vertex') : n \notin vertexes)
            => search' = "KeyError"]_vars
    /\ []((DijkstraSearched
             /\ \A v \in Range(finalized) : NeighborSet(v) \subseteq vertexes)
           => (search \in {"True", "False"}
                 /\ (search = "True") <=> (end \in Range(finalized))))

\* C16 (amended): the distance table holds the indexed vertexes and start.
\* Whenever a Dijkstra search finalizes a vertex that has a neighbor other
\* than start absent from the index, the call fails with the lookup error in
\* that pass, before the end check, also when the vertex is end; a neighbor
\* that is start raises nothing even when start is absent from the index, and
\* a search that finalizes no vertex with a neighbor outside the table
\* returns true or false.
C16_FailsOnMissingDistanceEntry ==
    /\ [][(Finalizes
             /\ \E n \in NeighborSet(current_vertex') : n \notin vertexes \cup {start})
            => (search' = "KeyError" /\ pc' = "searched")]_vars
    /\ [][(Finalizes /\ NeighborSet(current_vertex') \subseteq vertexes \cup {start})
            => (search' # "KeyError"
                  /\ (search' = "True") <=> (current_vertex' = end))]_vars
    /\ []((DijkstraSearched
             /\ \A v \in Range(finalized) : NeighborSet(v) \subseteq vertexes \cup {start})
           => (search \in {"True", "False"}
                 /\ (search = "True") <=> (end \in Range(finalized))))
    /\ []((DijkstraSearched /\ search = "KeyError")
           => \E n \in NeighborSet(current_vertex) : n \notin vertexes \cup {start})

\* C16 witness: with no late add_neighbor, a Dijkstra search from a vertex of
\* the graph failed with the lookup error in the pass that finalized end.
C16_Witness ==
    /\ DijkstraSearched /\ search = "KeyError" /\ ~late_edge
    /\ start \in vertexes /\ end \in vertexes /\ start # end
    /\ current_vertex = end /\ end \in Range(finalized)

====
